---- MODULE Spec2Model ----
(***************************************************************************)
(* Model of src/src/nfa.rs: the NFA value, the combinators empty, unit,    *)
(* plus, times and star, and the subset-simulation matcher NFA::is_match.  *)
(*                                                                         *)
(* A Node(n) is the natural number n.  A delta map is a TLA+ function      *)
(* whose DOMAIN is the set of keys <<node, ch>> present in the HashMap.    *)
(*                                                                         *)
(* Two lines of the source do not compile as written: line 92              *)
(* (`new_set = tmp;`, tmp is never declared) and line 129 (assignment to   *)
(* the non-mut `added_starting`).  Line 129 is modelled as the assignment  *)
(* it spells.  Line 92 is modelled as leaving new_set as lines 89-91 built *)
(* it, the only reading under which test_times (lines 206-218) passes and  *)
(* the comment on line 78 holds.                                           *)
(***************************************************************************)
EXTENDS Naturals, Sequences, FiniteSets, TLC

\* ---- bounds ----
MaxStates == 5      \* largest states count a combinator call may produce
MaxLen    == 3      \* longest symbol sequence fed to is_match
MaxSecond == 2      \* largest states count of an automaton kept in binding 2
MaxHeld   == 6      \* most states the two bindings hold together
MaxMatch  == 4      \* is_match is run while the bindings hold at most this many states
MaxAnyStates  == 2  \* largest hand-built automaton given to times
MaxAnyEntries == 1  \* most delta entries of a hand-built automaton
Alphabet  == {"a", "b"}
Regs      == {1, 2} \* bindings the caller keeps automata in

VARIABLES regs, out, last, pc, self, input, stream, nodes, steps, matched

vars == <<regs, out, last, pc, self, input, stream, nodes, steps, matched>>

\* ---- pure helpers ----
Str(n) == UNION {[1..k -> Alphabet] : k \in 0..n}

Strings == Str(MaxLen)

Intersects(S, T) == S \cap T # {}

\* ---- NFA::is_match (lines 15-29) ----
\* variant: a dead active set restarts from the starting states
StepRestartWhenDead(nfa, ns, ch) ==
    LET from == IF ns = {} THEN nfa.starting ELSE ns
    IN UNION { IF <<node, ch>> \in DOMAIN nfa.delta THEN nfa.delta[<<node, ch>>] ELSE {}
               : node \in from }

\* one pass of the `for ch in stream` body, lines 18-26
Step(nfa, ns, ch) ==
    UNION { IF <<node, ch>> \in DOMAIN nfa.delta THEN nfa.delta[<<node, ch>>] ELSE {}
            : node \in ns }

RECURSIVE Run(_, _, _)
Run(nfa, ns, s) ==
    IF s = <<>> THEN ns ELSE Run(nfa, Step(nfa, ns, Head(s)), Tail(s))

IsMatch(nfa, s) == \E node \in Run(nfa, nfa.starting, s) : node \in nfa.finished

\* ---- combinators ----
\* variant: the offset is one too large
increaseOffByOne(first, node) == node + first.states + 1

increase(first, node) == node + first.states

\* variant: Node(0) is left out of the renumbered set
IncreaseSetSkipsZero(first, set) == {increase(first, node) : node \in set \ {0}}

IncreaseSet(first, set) == {increase(first, node) : node \in set}

\* variant: the keys are renumbered but the destination sets are not
IncreaseDeltaKeysOnly(first, second) ==
    [k \in {<<increase(first, q[1]), q[2]>> : q \in DOMAIN second.delta}
        |-> second.delta[<<k[1] - first.states, k[2]>>]]

\* the renumbered copy of second.delta, lines 51-54 and 99-102
IncreaseDelta(first, second) ==
    [k \in {<<increase(first, q[1]), q[2]>> : q \in DOMAIN second.delta}
        |-> IncreaseSet(first, second.delta[<<k[1] - first.states, k[2]>>])]

\* variant: the sole state is not accepting
EmptyNotFinished ==
    [states |-> 1, starting |-> {0}, delta |-> <<>>, finished |-> {}]

Empty ==
    [states |-> 1, starting |-> {0}, delta |-> <<>>, finished |-> {0}]

\* variant: the start state is the accepting one
UnitFinishedAtStart(ch) ==
    [states |-> 2, starting |-> {0},
     delta |-> (<<0, ch>> :> {1}), finished |-> {0}]

Unit(ch) ==
    [states |-> 2, starting |-> {0},
     delta |-> (<<0, ch>> :> {1}), finished |-> {1}]

\* variant: second's accepting states are dropped
PlusFinishedFirstOnly(first, second) ==
    [states   |-> first.states + second.states,
     starting |-> first.starting \cup IncreaseSet(first, second.starting),
     delta    |-> IncreaseDelta(first, second) @@ first.delta,
     finished |-> first.finished]

\* variant: second's entries are inserted under their own, unshifted keys
PlusKeysUnshifted(first, second) ==
    [states   |-> first.states + second.states,
     starting |-> first.starting \cup IncreaseSet(first, second.starting),
     delta    |-> [k \in DOMAIN second.delta |-> IncreaseSet(first, second.delta[k])]
                     @@ first.delta,
     finished |-> first.finished \cup IncreaseSet(first, second.finished)]

Plus(first, second) ==
    [states   |-> first.states + second.states,
     starting |-> first.starting \cup IncreaseSet(first, second.starting),
     delta    |-> IncreaseDelta(first, second) @@ first.delta,
     finished |-> first.finished \cup IncreaseSet(first, second.finished)]

\* variant: the fall-through into second is never added
TimesScanNoFallthrough(first, second_starting, rest, new_set, added) == new_set

\* variant: the fall-through is added without looking at first.finished
TimesScanAlways(first, second_starting, rest, new_set, added) ==
    IF rest = {} THEN new_set ELSE new_set \cup second_starting

\* lines 85-95: scan of one destination set with the added_second_starting flag
RECURSIVE TimesScan(_, _, _, _, _)
TimesScan(first, second_starting, rest, new_set, added) ==
    IF rest = {} THEN new_set
    ELSE LET m == CHOOSE x \in rest : TRUE IN
         IF m \in first.finished /\ ~added
         THEN TimesScan(first, second_starting, rest \ {m},
                        new_set \cup second_starting, TRUE)
         ELSE TimesScan(first, second_starting, rest \ {m}, new_set, added)

\* variant: second's starting states are never entered at the start
TimesStartingFirstOnly(first, second) == first.starting

TimesStarting(first, second) ==
    first.starting \cup
    UNION { IF n \in first.finished THEN IncreaseSet(first, second.starting) ELSE {}
            : n \in first.starting }

\* variant: second's accepting states are not renumbered
TimesFinishedUnshifted(first, second) ==
    LET second_starting == IncreaseSet(first, second.starting)
        augmented == [k \in DOMAIN first.delta |->
                        TimesScan(first, second_starting, first.delta[k],
                                  first.delta[k], FALSE)]
    IN [states   |-> first.states + second.states,
        starting |-> TimesStarting(first, second),
        delta    |-> IncreaseDelta(first, second) @@ (augmented @@ first.delta),
        finished |-> second.finished]

Times(first, second) ==
    LET second_starting == IncreaseSet(first, second.starting)
        augmented == [k \in DOMAIN first.delta |->
                        TimesScan(first, second_starting, first.delta[k],
                                  first.delta[k], FALSE)]
    IN [states   |-> first.states + second.states,
        starting |-> TimesStarting(first, second),
        delta    |-> IncreaseDelta(first, second) @@ (augmented @@ first.delta),
        finished |-> IncreaseSet(first, second.finished)]

\* variant: starting states are added without looking at nfa.finished
StarScanAlways(nfa, rest, new_set, added) ==
    IF rest = {} THEN new_set ELSE new_set \cup nfa.starting

\* variant: the loop back to the starting states is never added
StarScanNoLoopBack(nfa, rest, new_set, added) == new_set

\* lines 127-134: scan of one destination set with the added_starting flag
RECURSIVE StarScan(_, _, _, _)
StarScan(nfa, rest, new_set, added) ==
    IF rest = {} THEN new_set
    ELSE LET m == CHOOSE x \in rest : TRUE IN
         IF m \in nfa.finished /\ ~added
         THEN StarScan(nfa, rest \ {m}, new_set \cup nfa.starting, TRUE)
         ELSE StarScan(nfa, rest \ {m}, new_set, added)

Star(nfa) ==
    LET augmented == [k \in DOMAIN nfa.delta |->
                        StarScan(nfa, nfa.delta[k], nfa.delta[k], FALSE)]
    IN [states   |-> nfa.states,
        starting |-> nfa.starting,
        delta    |-> augmented @@ nfa.delta,
        finished |-> nfa.finished \cup nfa.starting]

\* ---- state machine ----
\* regs   : the automata the caller has bound to names
\* out    : the value returned by the combinator call recorded in `last`
\* last   : the most recent combinator call (op, operand bindings, symbol)
\* pc, self, input, stream, nodes, steps, matched : one is_match call:
\*          the binding it runs on, the sequence it was given, the part of
\*          the stream not yet drawn, the active set `nodes`, the number of
\*          loop passes made, and the returned boolean
NoCall == [op |-> "none", first |-> 0, second |-> 0, ch |-> "-"]

\* binding 1 holds any automaton within MaxStates, binding 2 a small one
Capacity(i) == IF i = 1 THEN MaxStates ELSE MaxSecond

Other(i) == IF i = 1 THEN 2 ELSE 1

Idle == pc \in {"idle", "returned"}

ResetMatch ==
    /\ pc' = "idle"
    /\ self' = 0
    /\ input' = <<>>
    /\ stream' = <<>>
    /\ nodes' = {}
    /\ steps' = 0
    /\ matched' = FALSE

Init ==
    /\ regs = [i \in Regs |-> Empty]
    /\ out = Empty
    /\ last = NoCall
    /\ pc = "idle"
    /\ self = 0
    /\ input = <<>>
    /\ stream = <<>>
    /\ nodes = {}
    /\ steps = 0
    /\ matched = FALSE

EmptyCall ==
    /\ Idle
    /\ out' = Empty
    /\ last' = [op |-> "empty", first |-> 0, second |-> 0, ch |-> "-"]
    /\ regs' = regs
    /\ ResetMatch

UnitCall(ch) ==
    /\ Idle
    /\ out' = Unit(ch)
    /\ last' = [op |-> "unit", first |-> 0, second |-> 0, ch |-> ch]
    /\ regs' = regs
    /\ ResetMatch

PlusCall(i, j) ==
    /\ Idle
    /\ regs[i].states + regs[j].states <= MaxStates
    /\ out' = Plus(regs[i], regs[j])
    /\ last' = [op |-> "plus", first |-> i, second |-> j, ch |-> "-"]
    /\ regs' = regs
    /\ ResetMatch

TimesCall(i, j) ==
    /\ Idle
    /\ regs[i].states + regs[j].states <= MaxStates
    /\ out' = Times(regs[i], regs[j])
    /\ last' = [op |-> "times", first |-> i, second |-> j, ch |-> "-"]
    /\ regs' = regs
    /\ ResetMatch

\* variant: star rewrites the automaton it was given
StarCallInPlace(i) ==
    /\ Idle
    /\ out' = Star(regs[i])
    /\ last' = [op |-> "star", first |-> i, second |-> 0, ch |-> "-"]
    /\ regs' = [regs EXCEPT ![i] = Star(regs[i])]
    /\ ResetMatch

StarCall(i) ==
    /\ Idle
    /\ out' = Star(regs[i])
    /\ last' = [op |-> "star", first |-> i, second |-> 0, ch |-> "-"]
    /\ regs' = regs
    /\ ResetMatch

\* `let x = <call>;` in the caller: the returned value is moved into a binding
Bind(i) ==
    /\ Idle
    /\ last.op # "none"
    /\ out.states <= Capacity(i)
    /\ out.states + regs[Other(i)].states <= MaxHeld
    /\ regs' = [regs EXCEPT ![i] = out]
    /\ out' = Empty
    /\ last' = NoCall
    /\ ResetMatch

\* line 16: is_match is entered on a bound automaton with a fresh stream
MatchBegin(i, s) ==
    /\ Idle
    /\ last.op = "none"
    /\ regs[1].states + regs[2].states <= MaxMatch
    /\ pc' = "loop"
    /\ self' = i
    /\ input' = s
    /\ stream' = s
    /\ nodes' = regs[i].starting
    /\ steps' = 0
    /\ matched' = FALSE
    /\ UNCHANGED <<regs, out, last>>

\* variant: the loop stops drawing symbols once the active set is empty
MatchStepShortCircuit ==
    /\ pc = "loop"
    /\ stream # <<>>
    /\ nodes' = Step(regs[self], nodes, Head(stream))
    /\ stream' = IF nodes' = {} THEN <<>> ELSE Tail(stream)
    /\ steps' = steps + 1
    /\ UNCHANGED <<regs, out, last, pc, self, input, matched>>

\* lines 17-27: one pass of the loop, drawing one symbol from the stream
MatchStep ==
    /\ pc = "loop"
    /\ stream # <<>>
    /\ nodes' = Step(regs[self], nodes, Head(stream))
    /\ stream' = Tail(stream)
    /\ steps' = steps + 1
    /\ UNCHANGED <<regs, out, last, pc, self, input, matched>>

\* variant: every active node, not just one, has to be finished
MatchReturnAll ==
    /\ pc = "loop"
    /\ stream = <<>>
    /\ matched' = (nodes # {} /\ \A node \in nodes : node \in regs[self].finished)
    /\ pc' = "returned"
    /\ UNCHANGED <<regs, out, last, self, input, stream, nodes, steps>>

\* line 28: the stream is exhausted and the boolean is returned
MatchReturn ==
    /\ pc = "loop"
    /\ stream = <<>>
    /\ matched' = (\E node \in nodes : node \in regs[self].finished)
    /\ pc' = "returned"
    /\ UNCHANGED <<regs, out, last, self, input, stream, nodes, steps>>

Next ==
    \/ EmptyCall
    \/ \E ch \in Alphabet : UnitCall(ch)
    \/ \E i, j \in Regs : PlusCall(i, j)
    \/ \E i, j \in Regs : TimesCall(i, j)
    \/ \E i \in Regs : StarCall(i)
    \/ \E i \in Regs : Bind(i)
    \/ \E i \in Regs, s \in Strings : MatchBegin(i, s)
    \/ MatchStep
    \/ MatchReturn

Spec == Init /\ [][Next]_vars

\* ---- times on automata that never finish ----
\* The NFA struct (lines 7-12) can be filled in directly inside the crate.
\* These are the well-formed values with an empty finished set: every id in
\* starting, in a delta key and in a destination set is below states.
AnyDelta(n) ==
    LET Keys == (0..(n - 1)) \X Alphabet
    IN UNION { [K -> SUBSET (0..(n - 1))] :
                 K \in {X \in SUBSET Keys : Cardinality(X) <= MaxAnyEntries} }

NeverFinishing ==
    UNION { { [states |-> n, starting |-> S, delta |-> d, finished |-> {}] :
                S \in SUBSET (0..(n - 1)), d \in AnyDelta(n) } :
            n \in 1..MaxAnyStates }

Primitives == {Empty} \cup {Unit(ch) : ch \in Alphabet}

InitAny ==
    /\ regs \in { [i \in Regs |-> IF i = 1 THEN A ELSE B] :
                    A \in NeverFinishing, B \in Primitives }
    /\ out = Empty
    /\ last = NoCall
    /\ pc = "idle"
    /\ self = 0
    /\ input = <<>>
    /\ stream = <<>>
    /\ nodes = {}
    /\ steps = 0
    /\ matched = FALSE

NextAny == \E i, j \in Regs : TimesCall(i, j)

SpecAny == InitAny /\ [][NextAny]_vars

\* is_match is a synchronous loop: once entered, each pass and the return
\* are taken as soon as they are possible
FairSpec == Spec /\ WF_vars(MatchStep) /\ WF_vars(MatchReturn)

\* ---- properties ----
First  == regs[last.first]
Second == regs[last.second]

Prefix(s, k) == SubSeq(s, 1, k)
Suffix(s, k) == SubSeq(s, k + 1, Len(s))

\* s can be cut into zero or more consecutive pieces, each accepted by nfa
RECURSIVE Pieces(_, _)
Pieces(nfa, s) ==
    \/ s = <<>>
    \/ \E k \in 1..Len(s) : IsMatch(nfa, Prefix(s, k)) /\ Pieces(nfa, Suffix(s, k))

\* s can be cut at some point into a part first accepts and a part second accepts
Splits(first, second, s) ==
    \E k \in 0..Len(s) : IsMatch(first, Prefix(s, k)) /\ IsMatch(second, Suffix(s, k))

\* C1: star(A) accepts s exactly when s can be cut into zero or more
\* consecutive pieces each accepted by A.
C1_StarAcceptsExactlyPieces ==
    last.op = "star" =>
        \A s \in Strings : IsMatch(out, s) <=> Pieces(First, s)

\* C2: times(A,B) accepts s exactly when some split point puts a prefix in
\* A's language and the remaining suffix in B's language.
C2_TimesAcceptsExactlySplits ==
    last.op = "times" =>
        \A s \in Strings : IsMatch(out, s) <=> Splits(First, Second, s)

C2_Witness ==
    /\ last.op = "times"
    /\ First.states >= 2 /\ Second.states >= 2
    /\ \E s \in Strings :
          /\ Len(s) >= 3
          /\ IsMatch(out, s)
          /\ ~IsMatch(First, s) /\ ~IsMatch(Second, s)

\* C3: plus(A,B) accepts s exactly when A accepts s or B accepts s.
C3_PlusAcceptsEither ==
    last.op = "plus" =>
        \A s \in Strings : IsMatch(out, s) <=> (IsMatch(First, s) \/ IsMatch(Second, s))

C3_Witness ==
    /\ last.op = "plus"
    /\ \E s, u \in Strings :
          /\ IsMatch(First, s) /\ ~IsMatch(Second, s)
          /\ IsMatch(Second, u) /\ ~IsMatch(First, u)
          /\ Len(s) >= 2
          /\ IsMatch(out, s) /\ IsMatch(out, u)

\* C4: every automaton a combinator produces keeps all its state ids, in
\* starting, finished, delta keys and delta destinations, below states.
WithinBounds(nfa) ==
    /\ \A n \in nfa.starting : n < nfa.states
    /\ \A n \in nfa.finished : n < nfa.states
    /\ \A k \in DOMAIN nfa.delta :
          /\ k[1] < nfa.states
          /\ \A m \in nfa.delta[k] : m < nfa.states

C4_BoundsInvariant ==
    /\ WithinBounds(out)
    /\ \A i \in Regs : WithinBounds(regs[i])

C4_Witness ==
    /\ last.op \in {"plus", "times"}
    /\ First.states >= 2 /\ Second.states >= 2
    /\ DOMAIN Second.delta # {}
    /\ \E k \in DOMAIN out.delta : k[1] >= First.states /\ out.delta[k] # {}

\* C5: times with empty() on either side accepts exactly what the other
\* operand accepts.
C5_TimesEmptyIdentity ==
    last.op = "times" =>
        /\ First = Empty =>
              \A s \in Strings : IsMatch(out, s) = IsMatch(Second, s)
        /\ Second = Empty =>
              \A s \in Strings : IsMatch(out, s) = IsMatch(First, s)

C5_Witness ==
    /\ last.op = "times"
    /\ Second = Empty
    /\ First.states >= 3
    /\ \E s \in Strings : Len(s) >= 2 /\ IsMatch(out, s)
    /\ \E s \in Strings : Len(s) >= 1 /\ ~IsMatch(out, s)

\* C6: unit(c) accepts the one-symbol sequence <<c>> and no other sequence.
C6_UnitAcceptsOnlyItsSymbol ==
    last.op = "unit" =>
        \A s \in Strings : IsMatch(out, s) <=> s = <<last.ch>>

C6_Witness ==
    /\ last.op = "unit"
    /\ IsMatch(out, <<last.ch>>)
    /\ \E d \in Alphabet : d # last.ch /\ ~IsMatch(out, <<d>>)

\* C7: empty() accepts the zero-length sequence and no nonempty sequence.
C7_EmptyAcceptsOnlyEmpty ==
    last.op = "empty" =>
        \A s \in Strings : IsMatch(out, s) <=> s = <<>>

C7_Witness ==
    /\ last.op = "empty"
    /\ IsMatch(out, <<>>)
    /\ regs[1] # Empty

\* C8: a combinator call and every step of an is_match call leave the
\* automata they were given exactly as they were; a match also leaves the
\* last returned automaton alone.
C8_InputsUnchanged ==
    [][ /\ (last'.op # "none" \/ pc' = "loop" \/ pc = "loop") => regs' = regs
        /\ (pc' = "loop" \/ pc = "loop") => out' = out ]_vars

C8_Witness ==
    /\ last.op = "star"
    /\ out.delta # First.delta
    /\ out.finished # First.finished
    /\ \E s \in Strings : IsMatch(out, s) /\ ~IsMatch(First, s)

\* C9: in times(A,B) each A entry whose destinations meet A.finished gains
\* B's shifted starting states, each other A entry is copied as is, each B
\* entry appears shifted by A.states, and there are no other keys.
C9_TimesDelta ==
    last.op = "times" =>
        LET A == First
            B == Second
            Bstart == {m + A.states : m \in B.starting}
        IN /\ \A k \in DOMAIN A.delta :
                 out.delta[k] = IF Intersects(A.delta[k], A.finished)
                                THEN A.delta[k] \cup Bstart
                                ELSE A.delta[k]
           /\ \A k \in DOMAIN B.delta :
                 /\ <<k[1] + A.states, k[2]>> \in DOMAIN out.delta
                 /\ out.delta[<<k[1] + A.states, k[2]>>]
                       = {m + A.states : m \in B.delta[k]}
           /\ DOMAIN out.delta =
                 DOMAIN A.delta \cup {<<k[1] + A.states, k[2]>> : k \in DOMAIN B.delta}

\* two A entries are augmented in the same call
C9_Witness ==
    /\ last.op = "times"
    /\ \E k1, k2 \in DOMAIN First.delta :
          /\ k1 # k2
          /\ Intersects(First.delta[k1], First.finished)
          /\ Intersects(First.delta[k2], First.finished)
          /\ out.delta[k1] # First.delta[k1]
          /\ out.delta[k2] # First.delta[k2]

\* C10: times(A,B) has states A.states + B.states, finished B.finished
\* shifted by A.states, and starting A.starting, joined by B's shifted
\* starting states exactly when A.starting meets A.finished.
C10_TimesShape ==
    last.op = "times" =>
        LET A == First
            B == Second
        IN /\ out.states = A.states + B.states
           /\ out.finished = {m + A.states : m \in B.finished}
           /\ out.starting = IF Intersects(A.starting, A.finished)
                             THEN A.starting \cup {m + A.states : m \in B.starting}
                             ELSE A.starting

C10_Witness ==
    /\ last.op = "times"
    /\ Intersects(First.starting, First.finished)
    /\ First.states >= 2
    /\ Cardinality(out.starting) > Cardinality(First.starting)

\* C11: star(A) keeps A's states, starting and keys; finished gains
\* A.starting; each entry whose destinations meet A.finished gains
\* A.starting and every other entry is copied as is.
C11_StarShape ==
    last.op = "star" =>
        LET A == First
        IN /\ out.states = A.states
           /\ out.starting = A.starting
           /\ out.finished = A.finished \cup A.starting
           /\ DOMAIN out.delta = DOMAIN A.delta
           /\ \A k \in DOMAIN A.delta :
                 out.delta[k] = IF Intersects(A.delta[k], A.finished)
                                THEN A.delta[k] \cup A.starting
                                ELSE A.delta[k]

\* one entry gains the starting states, another entry is copied as is,
\* and a starting state becomes accepting
C11_Witness ==
    /\ last.op = "star"
    /\ \E k1, k2 \in DOMAIN First.delta :
          /\ out.delta[k1] # First.delta[k1]
          /\ ~Intersects(First.delta[k2], First.finished)
          /\ out.delta[k2] = First.delta[k2]
    /\ out.finished # First.finished

\* C12: plus(A,B) is the disjoint union: states add up, starting and
\* finished are A's joined with B's shifted by A.states, every A entry is
\* kept as is, every B entry appears shifted, and there are no other keys.
C12_PlusShape ==
    last.op = "plus" =>
        LET A == First
            B == Second
            Shift(S) == {m + A.states : m \in S}
            Bkeys == {<<k[1] + A.states, k[2]>> : k \in DOMAIN B.delta}
        IN /\ out.states = A.states + B.states
           /\ out.starting = A.starting \cup Shift(B.starting)
           /\ out.finished = A.finished \cup Shift(B.finished)
           /\ DOMAIN A.delta \cap Bkeys = {}
           /\ DOMAIN out.delta = DOMAIN A.delta \cup Bkeys
           /\ \A k \in DOMAIN A.delta : out.delta[k] = A.delta[k]
           /\ \A k \in DOMAIN B.delta :
                 out.delta[<<k[1] + A.states, k[2]>>] = Shift(B.delta[k])

\* both operands have an entry under the same (state, symbol) key
C12_Witness ==
    /\ last.op = "plus"
    /\ First.states >= 3
    /\ \E k \in DOMAIN First.delta : k \in DOMAIN Second.delta

\* C13: once the active set of an is_match call is empty it stays empty
\* through every later pass of the loop, and the call returns false.
C13_EmptyActiveSetAbsorbing ==
    [][ (pc = "loop" /\ nodes = {}) =>
            /\ pc' = "loop" => nodes' = {}
            /\ pc' = "returned" => ~matched' ]_vars

\* the active set became empty on the first symbol, two more were consumed
C13_Witness ==
    /\ pc = "returned"
    /\ Len(input) = 3
    /\ steps = 3
    /\ Run(regs[self], regs[self].starting, Prefix(input, 1)) = {}
    /\ \E s \in Strings : Len(s) = 3 /\ IsMatch(regs[self], s)
    /\ nodes = {}
    /\ ~matched

\* C14: an is_match call on a sequence of n symbols makes one pass per
\* symbol in stream order, never skips or revisits a symbol, returns with
\* the stream exhausted after exactly n passes, and always returns.
C14_MatchTerminates ==
    /\ [](pc = "loop" => stream = Suffix(input, steps))
    /\ [](pc = "returned" => steps = Len(input) /\ stream = <<>> /\ matched \in BOOLEAN)
    /\ [][pc = "loop" /\ pc' = "loop" =>
             /\ steps' = steps + 1
             /\ stream' = Tail(stream)
             /\ nodes' = Step(regs[self], nodes, input[steps'])]_vars
    /\ (pc = "loop") ~> (pc = "returned")

\* a call that stayed in the loop after its active set was already empty
C14_Witness ==
    /\ pc = "returned"
    /\ Len(input) = 3
    /\ steps = 3
    /\ stream = <<>>
    /\ Run(regs[self], regs[self].starting, Prefix(input, 2)) = {}
    /\ Run(regs[self], regs[self].starting, Prefix(input, 1)) # {}

\* C15: when A's finished set is empty, times(A,B) copies A's entries
\* without adding anything, starts exactly in A.starting, accepts no
\* sequence, and no state of B is ever active on any input.
C15_TimesAfterNeverFinishing ==
    (last.op = "times" /\ First.finished = {}) =>
        /\ \A k \in DOMAIN First.delta : out.delta[k] = First.delta[k]
        /\ out.starting = First.starting
        /\ \A s \in Strings :
              /\ ~IsMatch(out, s)
              /\ \A n \in Run(out, out.starting, s) : n < First.states

\* A steps through its own states on some symbol, B could start, yet the
\* result never enters B
C15_Witness ==
    /\ last.op = "times"
    /\ First.finished = {}
    /\ First.starting # {}
    /\ Second.starting # {}
    /\ DOMAIN Second.delta # {}
    /\ \E s \in Strings : Len(s) >= 2 /\ Run(out, out.starting, s) # {}

\* a single run of the automaton: from state q, the symbols of s can be
\* followed one move at a time to a finished state; a key that is not in
\* delta offers no move
Moves(nfa, q, ch) ==
    IF <<q, ch>> \in DOMAIN nfa.delta THEN nfa.delta[<<q, ch>>] ELSE {}

RECURSIVE PathFrom(_, _, _)
PathFrom(nfa, q, s) ==
    IF s = <<>> THEN q \in nfa.finished
    ELSE \E r \in Moves(nfa, q, Head(s)) : PathFrom(nfa, r, Tail(s))

PathAccepts(nfa, s) == \E q0 \in nfa.starting : PathFrom(nfa, q0, s)

\* C16: is_match returns true exactly when some run q0..qn exists with q0
\* starting, each q_i a move from q_(i-1) on the i-th symbol, and qn finished.
C16_MatchIsPathSemantics ==
    pc = "returned" => (matched <=> PathAccepts(regs[self], input))

\* an accepted sequence on which a second run of the automaton dies or
\* ends outside finished
C16_Witness ==
    /\ pc = "returned"
    /\ matched
    /\ Len(input) >= 2
    /\ Cardinality(nodes) >= 2
    /\ \E n \in nodes : n \notin regs[self].finished

\* C17: star(A) accepts the empty sequence, every sequence A accepts, and
\* every concatenation of one or more sequences A accepts.
C17_StarLosesNothing ==
    last.op = "star" =>
        /\ IsMatch(out, <<>>)
        /\ \A s \in Strings : IsMatch(First, s) => IsMatch(out, s)
        /\ \A s \in Strings : Pieces(First, s) => IsMatch(out, s)

\* a sequence that takes at least two repetitions of A, with A rejecting
\* the empty sequence
C17_Witness ==
    /\ last.op = "star"
    /\ ~IsMatch(First, <<>>)
    /\ First.states >= 3
    /\ \E s \in Strings :
          /\ Len(s) >= 2
          /\ ~IsMatch(First, s)
          /\ Pieces(First, s)
          /\ IsMatch(out, s)

\* C18: every automaton built from empty and unit by plus, times and star
\* has a starting state, a finished state, and no delta entry with an
\* empty destination set.
NonDegenerate(nfa) ==
    /\ nfa.starting # {}
    /\ nfa.finished # {}
    /\ \A k \in DOMAIN nfa.delta : nfa.delta[k] # {}

C18_BuiltAutomataNonDegenerate ==
    /\ NonDegenerate(out)
    /\ \A i \in Regs : NonDegenerate(regs[i])

\* a times call on a nested first operand with several entries
C18_Witness ==
    /\ last.op = "times"
    /\ First.states >= 4
    /\ Cardinality(DOMAIN First.delta) >= 2
    /\ \E k \in DOMAIN First.delta : Intersects(First.delta[k], First.starting)
    /\ NonDegenerate(out)

\* C19: in plus(A,B) no entry leads from one operand's range of states
\* into the other's; in times(A,B) no entry keyed in B's range leads back
\* into A's range, and an entry keyed in A's range reaches B's range only
\* at B's shifted starting states.
C19_RangesKeptApart ==
    /\ last.op = "plus" =>
          \A k \in DOMAIN out.delta : \A m \in out.delta[k] :
              (k[1] < First.states) <=> (m < First.states)
    /\ last.op = "times" =>
          \A k \in DOMAIN out.delta : \A m \in out.delta[k] :
              /\ k[1] >= First.states => m >= First.states
              /\ (k[1] < First.states /\ m >= First.states) =>
                    m - First.states \in Second.starting

\* a times result with an entry crossing from A into B and entries inside B
C19_Witness ==
    /\ last.op = "times"
    /\ First # Second
    /\ \E k \in DOMAIN out.delta : \E m \in out.delta[k] :
          k[1] < First.states /\ m >= First.states
    /\ \E k \in DOMAIN out.delta : \E m \in out.delta[k] :
          k[1] >= First.states /\ m > First.states

====
